---- MODULE Spec2Model ----
(***************************************************************************)
(* VibeSense: the sustained-emotion detection loop (src/main.py and        *)
(* src/server/main.py), its configuration (src/config.py) and the UI       *)
(* sliders that rewrite the configuration at run time (src/ui.py).         *)
(*                                                                         *)
(* Time is counted in tenths of a second: 1.5 s is 15, 5.0 s is 50.        *)
(* Confidences, thresholds and ratios are counted in percent: 0.8 is 80.   *)
(* The comparison strong_count / float(total) >= 0.8 is computed as        *)
(* strong_count * 100 >= 80 * total, which agrees with the correctly       *)
(* rounded IEEE division for the window sizes reached here.                *)
(***************************************************************************)
EXTENDS Integers, Sequences, FiniteSets, TLC

VARIABLES
    clock,                        \* time.time(), tenths of a second
    last_detection_time,          \* run_detection_loop local
    analysis_history,             \* deque of <<timestamp, emotion, confidence>>
    mute_until,                   \* run_detection_loop local
    DETECTION_INTERVAL,           \* config attribute, rewritten by the UI
    STRONG_CONFIDENCE_THRESHOLD,  \* config attribute, rewritten by the UI
    SIGNAL_COOLDOWN_SECONDS,      \* config attribute, rewritten by the UI
    SUSTAIN_WINDOW_SECONDS,       \* config attribute, fixed after import
    SUSTAIN_RATIO,                \* config attribute, fixed after import
    sent,                         \* send_vibration calls of the latest detection tick
    nticks,                       \* history: number of detection ticks so far
    emissions,                    \* history: <<t0, C, vibrations, emotion>> of every signal
    \* src/server/main.py only
    ENABLE_AUTO_SIGNALING,        \* config attribute read by the server's loop
    ENABLE_SIGNAL_ON_API,         \* config attribute read by gemini_endpoint
    analysis_lock,                \* threading.Lock: "free", "detect" or "flask"
    dpc,                          \* where the detection thread is inside its tick
    pending,                      \* detection thread: (emotion, confidence) of the tick
    snapshot,                     \* detection thread: list(analysis_history)
    fpc,                          \* where the /gemini handler thread is
    cutoff,                       \* _recent_emotions local
    samples,                      \* gemini_endpoint local
    response,                     \* the latest answer of /gemini
    apiSent,                      \* send_vibration calls of the latest /gemini request
    accesses,                     \* history: <<thread, access, lock held>> made so far
    observedMid,                  \* history: a reader saw the deque between append and purge
    window,                       \* gemini_endpoint local: the ?window= of the request
    recorded,                     \* history: every sample the server's loop has appended
    \* the counting loop of a tick, sample by sample
    cpc,                          \* "loop", or "count" inside the for loop over the window
    ci,                           \* position of the for loop in the window
    tickCounts,                   \* the Counter "counts" of the tick, as far as it is filled
    thresholdsRead,               \* history: the threshold values the tick's loop has read
    \* start and shutdown with the UI (src/main.py main, src/ui.py on_closing)
    ui_running,                   \* EmotionDetectorUI.running
    stop_event,                   \* threading.Event: is_set()
    tpc,                          \* detection thread: "loop", "finally", "done" or "killed"
    iterStart,                    \* clock at which the running iteration passed the while test
    released,                     \* history: number of cap.release() calls
    mpc,                          \* main thread: "mainloop", "cleanup", "join" or "exited"
    joinStart,                    \* clock at which detection_thread.join began
    \* biometrics of the server (src/server/main.py 46-52)
    latest_biometrics,            \* <<pulse_average, breathing_average, timestamp>>
    biometrics_lock,              \* threading.Lock: "free", "writer" or "reader"
    wpc,                          \* receive_biometrics threads: where each one is
    wid,                          \* receive_biometrics threads: the update each one carries
    rpc,                          \* _build_gemini_prompt: where it is in its with block
    readTriple,                   \* _build_gemini_prompt locals pulse, breath, b_ts
    nposts                        \* history: number of POST /biometrics updates begun

scan == <<cpc, ci, tickCounts, thresholdsRead>>

life == <<ui_running, stop_event, tpc, iterStart, released, mpc, joinStart>>

bio == <<latest_biometrics, biometrics_lock, wpc, wid, rpc, readTriple, nposts>>

srv == <<ENABLE_AUTO_SIGNALING, ENABLE_SIGNAL_ON_API, analysis_lock, dpc, pending, snapshot,
         fpc, cutoff, samples, response, apiSent, accesses, observedMid, window,
         recorded, scan, life, bio>>

vars == <<clock, last_detection_time, analysis_history, mute_until,
          DETECTION_INTERVAL, STRONG_CONFIDENCE_THRESHOLD, SIGNAL_COOLDOWN_SECONDS,
          SUSTAIN_WINDOW_SECONDS, SUSTAIN_RATIO, sent, nticks, emissions, srv>>

config == <<DETECTION_INTERVAL, STRONG_CONFIDENCE_THRESHOLD, SIGNAL_COOLDOWN_SECONDS,
            SUSTAIN_WINDOW_SECONDS, SUSTAIN_RATIO>>

detector == <<last_detection_time, analysis_history, mute_until>>

history == <<nticks, emissions>>

----------------------------------------------------------------------------
(* Bounds of the exploration.                                              *)

MaxTime == 60

MaxTicks == 2

\* samples of the steady stream of scenario A
ScenarioASamples == 10

\* further samples fed after the steady stream of scenario A
MaxAfter == 2

----------------------------------------------------------------------------
(* src/config.py                                                           *)

None == "None"

EMOTION_TO_VIBRATION ==
    [happy |-> 1, angry |-> 2, sad |-> 3, surprise |-> 4,
     fear |-> 5, disgust |-> 6, neutral |-> 0]

\* a lookup whose default is one vibration
VibrationsOrOne(e) ==
    IF e \in DOMAIN EMOTION_TO_VIBRATION THEN EMOTION_TO_VIBRATION[e] ELSE 1

\* dict.get(emotion, 0)
VibrationsOf(e) ==
    IF e \in DOMAIN EMOTION_TO_VIBRATION THEN EMOTION_TO_VIBRATION[e] ELSE 0

DefaultDetectionInterval == 5

DefaultSustainWindow == 15

DefaultSustainRatio == 80

DefaultStrongThreshold == 80

DefaultCooldown == 50

----------------------------------------------------------------------------
(* Inputs: what analyze_frame returns, how long a loop iteration takes,    *)
(* and the slider positions the UI offers.                                 *)

\* analyze_frame returns (dominant_emotion, confidence) or (None, 0.0)
InputSamples ==
    { <<None, 0>>, <<"happy", 95>>, <<"sad", 90>>, <<"neutral", 95>>, <<"angry", 50>> }

\* elapsed time between two reads of time.time() by the loop
Dts == {5, 50}

IntervalValues == {5, 10}

ThresholdValues == {80, 95}

CooldownValues == {10, 50}

----------------------------------------------------------------------------
(* The window: append and purge (src/main.py 167-172).                     *)

\* a purge that tests the newest entry, analysis_history[-1], instead of the oldest
PurgeByNewest(h, window_start) ==
    IF h # <<>> /\ h[Len(h)][1] < window_start THEN Tail(h) ELSE h

\* a purge that drops the newest entry, pop(), for an expired oldest one
PurgeFromBack(h, window_start) ==
    IF h # <<>> /\ h[1][1] < window_start THEN SubSeq(h, 1, Len(h) - 1) ELSE h

RECURSIVE PurgeInclusive(_, _)
\* a purge that also removes the sample stamped exactly window_start
PurgeInclusive(h, window_start) ==
    IF h # <<>> /\ h[1][1] <= window_start
    THEN PurgeInclusive(Tail(h), window_start)
    ELSE h

RECURSIVE Purge(_, _)
\* while analysis_history and analysis_history[0][0] < window_start: popleft()
Purge(h, window_start) ==
    IF h # <<>> /\ h[1][1] < window_start
    THEN Purge(Tail(h), window_start)
    ELSE h

\* truthiness of the emotion: None and "" are false
Truthy(e) == e # None /\ e # ""

\* counts[e] += 1 on a Counter kept in insertion order: <<emotion, count>> pairs
CounterInc(counts, e) ==
    IF \E i \in 1..Len(counts) : counts[i][1] = e
    THEN [i \in 1..Len(counts) |->
            IF counts[i][1] = e THEN <<e, counts[i][2] + 1>> ELSE counts[i]]
    ELSE Append(counts, <<e, 1>>)

RECURSIVE CountStrongFrom(_, _, _)
\* for _, e, conf in analysis_history: if e and conf >= T: counts[e] += 1
CountStrongFrom(counts, h, T) ==
    IF h = <<>> THEN counts
    ELSE CountStrongFrom(
            IF Truthy(h[1][2]) /\ h[1][3] >= T THEN CounterInc(counts, h[1][2]) ELSE counts,
            Tail(h), T)

\* a count that takes every labelled sample for a strong one
CountStrongAny(h, T) == CountStrongFrom(<<>>, h, 0)

\* counts = Counter() and the loop over the window (src/main.py 186-190)
CountStrong(h, T) == CountStrongFrom(<<>>, h, T)

\* the last maximal item instead of the first
MostCommonLast(counts) ==
    LET best == CHOOSE i \in 1..Len(counts) :
                    /\ \A j \in 1..Len(counts) : counts[j][2] <= counts[i][2]
                    /\ \A j \in (i + 1)..Len(counts) : counts[j][2] < counts[i][2]
    IN counts[best]

\* counts.most_common(1)[0]: max(items, key=count), the first maximal item
MostCommon1(counts) ==
    LET best == CHOOSE i \in 1..Len(counts) :
                    /\ \A j \in 1..Len(counts) : counts[j][2] <= counts[i][2]
                    /\ \A j \in 1..(i - 1) : counts[j][2] < counts[i][2]
    IN counts[best]

\* a denominator that leaves out the samples without a label
TotalLabelled(h) == Cardinality({i \in 1..Len(h) : h[i][2] # None})

\* total = len(analysis_history) (src/main.py 185)
Total(h) == Len(h)

\* a window start one second too early
WindowStartWide(current_time, W) == current_time - W - 10

\* a window start that forgets the window length
WindowStartNow(current_time, W) == current_time

\* window_start = current_time - config.SUSTAIN_WINDOW_SECONDS (src/main.py 170)
WindowStart(current_time, W) == current_time - W

\* a mute test that always passes
NeverMuted(current_time, mu) == TRUE

\* a mute test that still suppresses the tick stamped exactly mute_until
AfterMute(current_time, mu) == current_time > mu

\* the mute test of the tick (src/main.py 184)
NotMuted(current_time, mu) == current_time >= mu

\* a ratio test that also wants a minimum of two samples in the window
RatioReachedWarm(strong_count, total, R) == total >= 2 /\ strong_count * 100 >= R * total

\* a ratio test that wants the ratio strictly above R
RatioExceeded(strong_count, total, R) == strong_count * 100 > R * total

\* ratio >= config.SUSTAIN_RATIO (src/main.py 195-196)
RatioReached(strong_count, total, R) == strong_count * 100 >= R * total

\* a mapping test that lets intensity 0 through
MappedOrZero(vibrations) == vibrations >= 0

\* the mapping test (src/main.py 199)
MappedToSignal(vibrations) == vibrations > 0

\* a cooldown that runs one interval too long
LongMuteUntil(current_time, C) == current_time + C + 5

\* mute_until after an emission (src/main.py 201)
NextMuteUntil(current_time, C) == current_time + C

\* The decision of one tick (src/main.py 184-201): the send_vibration calls it makes.
Decide(current_time, h, mu, T, R) ==
    IF NotMuted(current_time, mu) /\ h # <<>>
    THEN LET total  == Total(h)
             counts == CountStrong(h, T)
         IN IF counts # <<>>
            THEN LET dominant_emotion == MostCommon1(counts)[1]
                     strong_count     == MostCommon1(counts)[2]
                 IN IF RatioReached(strong_count, total, R)
                    THEN LET vibrations == VibrationsOf(dominant_emotion)
                         IN IF MappedToSignal(vibrations)
                            THEN << <<vibrations, dominant_emotion>> >>
                            ELSE <<>>
                    ELSE <<>>
            ELSE <<>>
    ELSE <<>>

----------------------------------------------------------------------------
(* The detection loop of src/main.py.                                      *)

\* the state after construction, under the configuration given
InitWith(d, T, C, W, R) ==
    /\ clock = 0
    /\ last_detection_time = 0
    /\ analysis_history = <<>>
    /\ mute_until = 0
    /\ DETECTION_INTERVAL = d
    /\ STRONG_CONFIDENCE_THRESHOLD = T
    /\ SIGNAL_COOLDOWN_SECONDS = C
    /\ SUSTAIN_WINDOW_SECONDS = W
    /\ SUSTAIN_RATIO = R
    /\ sent = <<>>
    /\ nticks = 0
    /\ emissions = <<>>
    /\ analysis_lock = "free"
    /\ dpc = "loop"
    /\ pending = <<>>
    /\ snapshot = <<>>
    /\ fpc = "idle"
    /\ cutoff = 0
    /\ samples = <<>>
    /\ response = <<>>
    /\ apiSent = <<>>
    /\ accesses = {}
    /\ observedMid = FALSE
    /\ window = 0
    /\ recorded = <<>>
    /\ cpc = "loop"
    /\ ci = 0
    /\ tickCounts = <<>>
    /\ thresholdsRead = {}
    /\ ui_running = TRUE
    /\ stop_event = FALSE
    /\ tpc = "loop"
    /\ iterStart = -1
    /\ released = 0
    /\ mpc = "mainloop"
    /\ joinStart = 0
    /\ latest_biometrics = <<0, 0, 0>>
    /\ biometrics_lock = "free"
    /\ wpc = [w \in {1, 2} |-> "idle"]
    /\ wid = [w \in {1, 2} |-> 0]
    /\ rpc = "idle"
    /\ readTriple = <<>>
    /\ nposts = 0

\* src/main.py never reads the two flags of the server
NoServerFlags ==
    /\ ENABLE_AUTO_SIGNALING = FALSE
    /\ ENABLE_SIGNAL_ON_API = FALSE

Init ==
    /\ InitWith(DefaultDetectionInterval, DefaultStrongThreshold, DefaultCooldown,
                DefaultSustainWindow, DefaultSustainRatio)
    /\ NoServerFlags

\* a failed read that empties the window
ReadFailClears(dt) ==
    /\ clock + dt <= MaxTime
    /\ clock' = clock + dt
    /\ analysis_history' = <<>>
    /\ UNCHANGED <<last_detection_time, mute_until, config, sent, history, srv>>

\* cap.read() fails: warning, sleep, continue (src/main.py 139-145)
ReadFail(dt) ==
    /\ clock + dt <= MaxTime
    /\ clock' = clock + dt
    /\ UNCHANGED <<detector, config, sent, history, srv>>

\* a loop iteration before the detection interval has elapsed (src/main.py 147-157, 224)
Idle(dt) ==
    /\ clock + dt <= MaxTime
    /\ ~ (clock + dt - last_detection_time >= DETECTION_INTERVAL)
    /\ clock' = clock + dt
    /\ UNCHANGED <<detector, config, sent, history, srv>>

\* a loop iteration that analyses the frame (src/main.py 147-207)
TickBody(dt, emotion, confidence) ==
    LET current_time == clock + dt
        appended     == Append(analysis_history, <<current_time, emotion, confidence>>)
        window_start == WindowStart(current_time, SUSTAIN_WINDOW_SECONDS)
        purged       == Purge(appended, window_start)
        calls        == Decide(current_time, purged, mute_until,
                               STRONG_CONFIDENCE_THRESHOLD, SUSTAIN_RATIO)
    IN /\ current_time <= MaxTime
       /\ current_time - last_detection_time >= DETECTION_INTERVAL
       /\ clock' = current_time
       /\ last_detection_time' = current_time
       /\ analysis_history' = purged
       /\ sent' = calls
       /\ mute_until' = IF calls # <<>>
                        THEN NextMuteUntil(current_time, SIGNAL_COOLDOWN_SECONDS)
                        ELSE mute_until
       /\ nticks' = nticks + 1
       /\ emissions' = IF calls # <<>>
                       THEN Append(emissions, <<current_time, SIGNAL_COOLDOWN_SECONDS,
                                                calls[1][1], calls[1][2]>>)
                       ELSE emissions
       /\ UNCHANGED <<config, srv>>

Tick(dt, emotion, confidence) ==
    /\ nticks < MaxTicks
    /\ TickBody(dt, emotion, confidence)

\* EmotionDetectorUI._on_interval_change (src/ui.py 186-190)
OnIntervalChange(value) ==
    /\ DETECTION_INTERVAL' = value
    /\ UNCHANGED <<clock, detector, STRONG_CONFIDENCE_THRESHOLD, SIGNAL_COOLDOWN_SECONDS,
                   SUSTAIN_WINDOW_SECONDS, SUSTAIN_RATIO, sent, history, srv>>

\* EmotionDetectorUI._on_threshold_change (src/ui.py 192-196)
OnThresholdChange(value) ==
    /\ STRONG_CONFIDENCE_THRESHOLD' = value
    /\ UNCHANGED <<clock, detector, DETECTION_INTERVAL, SIGNAL_COOLDOWN_SECONDS,
                   SUSTAIN_WINDOW_SECONDS, SUSTAIN_RATIO, sent, history, srv>>

\* EmotionDetectorUI._on_cooldown_change (src/ui.py 198-202)
OnCooldownChange(value) ==
    /\ SIGNAL_COOLDOWN_SECONDS' = value
    /\ UNCHANGED <<clock, detector, DETECTION_INTERVAL, STRONG_CONFIDENCE_THRESHOLD,
                   SUSTAIN_WINDOW_SECONDS, SUSTAIN_RATIO, sent, history, srv>>

Next ==
    \/ \E dt \in Dts : ReadFail(dt)
    \/ \E dt \in Dts : Idle(dt)
    \/ \E dt \in Dts, s \in InputSamples : Tick(dt, s[1], s[2])
    \/ \E v \in IntervalValues : OnIntervalChange(v)
    \/ \E v \in ThresholdValues : OnThresholdChange(v)
    \/ \E v \in CooldownValues : OnCooldownChange(v)

Spec == Init /\ [][Next]_vars

----------------------------------------------------------------------------
(* The policy of the specification, stated over sets of window positions   *)
(* rather than by the loop's running counter.                              *)

Last(q) == q[Len(q)]

\* positions of the strong samples of label e: label present and confidence >= T
StrongIdx(h, T, e) == {i \in 1..Len(h) : h[i][2] = e /\ h[i][3] >= T}

StrongLabels(h, T) ==
    {e \in {h[i][2] : i \in 1..Len(h)} \ {None} : StrongIdx(h, T, e) # {}}

FirstStrong(h, T, e) ==
    CHOOSE i \in StrongIdx(h, T, e) : \A j \in StrongIdx(h, T, e) : i <= j

\* the labels with the maximal strong count
Leaders(h, T) ==
    {e \in StrongLabels(h, T) :
        \A f \in StrongLabels(h, T) :
            Cardinality(StrongIdx(h, T, f)) <= Cardinality(StrongIdx(h, T, e))}

\* among them, the one whose first strong sample is the oldest
Dominant(h, T) ==
    CHOOSE e \in Leaders(h, T) :
        \A f \in Leaders(h, T) : FirstStrong(h, T, e) <= FirstStrong(h, T, f)

\* the window has a dominant, positively mapped label with strong ratio >= R
WindowQualifies(h, T, R) ==
    /\ StrongLabels(h, T) # {}
    /\ Cardinality(StrongIdx(h, T, Dominant(h, T))) * 100 >= R * Len(h)
    /\ VibrationsOf(Dominant(h, T)) > 0

PolicySignal(t, h, mu, T, R) ==
    IF t >= mu /\ WindowQualifies(h, T, R)
    THEN << <<VibrationsOf(Dominant(h, T)), Dominant(h, T)>> >>
    ELSE <<>>

\* the step is a detection tick
TickStep == nticks' = nticks + 1

\* the step emits a signal
EmitStep == Len(emissions') > Len(emissions)

\* the state right after a detection tick
JustTicked == nticks >= 1 /\ clock = last_detection_time

----------------------------------------------------------------------------
(* C1. Cooldown exclusivity: a tick emits a signal only if its timestamp   *)
(* is at least t0 + C for every earlier emission at t0 made while the      *)
(* cooldown was C, whatever the window contains.                           *)
CooldownExclusivity ==
    [][EmitStep =>
         \A k \in 1..Len(emissions) : clock' >= emissions[k][1] + emissions[k][2]]_vars

\* a tick inside the cooldown whose window alone would have fired, and did not
MutedTickSuppressed ==
    /\ JustTicked
    /\ emissions # <<>>
    /\ clock > Last(emissions)[1]
    /\ clock < Last(emissions)[1] + Last(emissions)[2]
    /\ WindowQualifies(analysis_history, STRONG_CONFIDENCE_THRESHOLD, SUSTAIN_RATIO)
    /\ sent = <<>>

(* C2. Window eviction: after every tick each retained sample has          *)
(* timestamp >= latest timestamp - W; no older sample survives.            *)
WindowEviction ==
    \A i \in 1..Len(analysis_history) :
        analysis_history[i][1] >= last_detection_time - SUSTAIN_WINDOW_SECONDS

\* the second tick has evicted the first sample and kept its own
EvictionHappened ==
    /\ JustTicked
    /\ nticks = 2
    /\ Len(analysis_history) = 1

(* C3. Emission decision: a tick emits iff it is not muted, some label has *)
(* a strong sample, the dominant label's strong count over the number of   *)
(* all samples of the window is >= R and the dominant label maps to an     *)
(* intensity > 0; the signal carries that label and its intensity.         *)
EmissionMatchesPolicy ==
    [][TickStep =>
         /\ sent' = PolicySignal(clock', analysis_history', mute_until,
                                 STRONG_CONFIDENCE_THRESHOLD, SUSTAIN_RATIO)
         /\ emissions' = IF sent' # <<>>
                         THEN Append(emissions, <<clock', SIGNAL_COOLDOWN_SECONDS,
                                                  sent'[1][1], sent'[1][2]>>)
                         ELSE emissions]_vars

\* a tick has emitted the signal of a window of several samples
EmittedOverWindow ==
    /\ JustTicked
    /\ Len(analysis_history) >= 2
    /\ StrongLabels(analysis_history, STRONG_CONFIDENCE_THRESHOLD) # {}
    /\ sent = << <<VibrationsOf(Dominant(analysis_history, STRONG_CONFIDENCE_THRESHOLD)),
                   Dominant(analysis_history, STRONG_CONFIDENCE_THRESHOLD)>> >>

(* C6. Re-arm after cooldown: a tick later than t0 + C of the latest       *)
(* emission, whose window has a dominant positively mapped label with      *)
(* strong ratio >= R, emits a new signal; mute_until is never anything but *)
(* t0 + C of the latest emission, so the muted state ends once time passes *)
(* it.                                                                     *)
RearmAfterCooldown ==
    [][/\ (/\ TickStep
           /\ emissions # <<>>
           /\ clock' > Last(emissions)[1] + Last(emissions)[2]
           /\ WindowQualifies(analysis_history', STRONG_CONFIDENCE_THRESHOLD, SUSTAIN_RATIO))
          => (EmitStep /\ Last(emissions')[1] = clock')
       /\ mute_until' = IF emissions' = <<>> THEN 0
                        ELSE Last(emissions')[1] + Last(emissions')[2]]_vars

\* a second signal emitted later than t0 + C of the first
RearmedSignal ==
    /\ Len(emissions) = 2
    /\ emissions[2][1] > emissions[1][1] + emissions[1][2]

(* C7. Zero-mapping suppression: a tick whose dominant label maps to       *)
(* intensity 0 emits nothing and leaves mute_until as it was.              *)
ZeroMappingSuppression ==
    [][(/\ TickStep
        /\ StrongLabels(analysis_history', STRONG_CONFIDENCE_THRESHOLD) # {}
        /\ VibrationsOf(Dominant(analysis_history', STRONG_CONFIDENCE_THRESHOLD)) = 0)
       => (sent' = <<>> /\ emissions' = emissions /\ mute_until' = mute_until)]_vars

\* an unmuted tick over a window of strong neutral samples only, without a signal
NeutralWindowSilent ==
    /\ JustTicked
    /\ clock >= mute_until
    /\ Len(analysis_history) >= 2
    /\ \A i \in 1..Len(analysis_history) :
          /\ analysis_history[i][2] = "neutral"
          /\ analysis_history[i][3] >= STRONG_CONFIDENCE_THRESHOLD
    /\ sent = <<>>
    /\ emissions = <<>>

(* C8. Tie-break: when several labels share the maximal strong count, the  *)
(* dominant label of the loop is the one whose first strong sample is the  *)
(* oldest in the window.                                                   *)
TieBreakOldestFirst ==
    StrongLabels(analysis_history, STRONG_CONFIDENCE_THRESHOLD) # {} =>
        MostCommon1(CountStrong(analysis_history, STRONG_CONFIDENCE_THRESHOLD))[1]
            = Dominant(analysis_history, STRONG_CONFIDENCE_THRESHOLD)

\* a window in which two labels tie and the older one is not the first by name
TiedWindow ==
    /\ Cardinality(Leaders(analysis_history, STRONG_CONFIDENCE_THRESHOLD)) >= 2
    /\ Dominant(analysis_history, STRONG_CONFIDENCE_THRESHOLD) = "sad"

----------------------------------------------------------------------------
(* Scenario A: W = 1.5 s, R = 0.8, T = 0.8, C = 5 s, samples (happy, 0.95) *)
(* every 0.1 s (the detection interval at the slider's minimum), then any  *)
(* samples while still within 5 s of the emission.                         *)

InitA ==
    /\ InitWith(1, DefaultStrongThreshold, DefaultCooldown,
                DefaultSustainWindow, DefaultSustainRatio)
    /\ NoServerFlags

FeedA ==
    /\ nticks < ScenarioASamples
    /\ TickBody(1, "happy", 95)

AfterA(dt, emotion, confidence) ==
    /\ nticks >= ScenarioASamples
    /\ nticks < ScenarioASamples + MaxAfter
    /\ emissions # <<>>
    /\ clock + dt < Last(emissions)[1] + Last(emissions)[2]
    /\ TickBody(dt, emotion, confidence)

NextA ==
    \/ FeedA
    \/ \E dt \in {1, 5, 20}, s \in InputSamples : AfterA(dt, s[1], s[2])

SpecA == InitA /\ [][NextA]_vars

(* C5. Scenario A: the stream emits the signal (happy, intensity 1)        *)
(* exactly once, and no sample within 5 s of that emission emits another.  *)
ScenarioAOnce ==
    nticks >= 1 =>
        /\ Len(emissions) = 1
        /\ emissions[1][3] = 1
        /\ emissions[1][4] = "happy"
        /\ emissions[1][2] = DefaultCooldown

\* a sample after the steady stream, within the cooldown, whose window would fire
ScenarioAMutedAfter ==
    /\ JustTicked
    /\ nticks > ScenarioASamples
    /\ WindowQualifies(analysis_history, STRONG_CONFIDENCE_THRESHOLD, SUSTAIN_RATIO)
    /\ sent = <<>>

----------------------------------------------------------------------------
(* Scenario B: W = 1.5 s, R = 0.8, T = 0.8, samples (sad, 0.9) and         *)
(* (happy, 0.9) in strict alternation, consecutive samples at most W       *)
(* apart.                                                                  *)

FeedB(dt) ==
    /\ dt <= SUSTAIN_WINDOW_SECONDS
    /\ TickBody(dt, IF nticks % 2 = 0 THEN "sad" ELSE "happy", 90)

NextB == \E dt \in {5, 10, 15} : FeedB(dt)

SpecB == Init /\ [][NextB]_vars

(* C4, as stated. Scenario B: the alternating stream never produces a      *)
(* signal on any tick.                                                     *)
ScenarioBNeverSignals == emissions = <<>>

(* C4, amended. Scenario B: the alternating stream produces a signal on    *)
(* its first tick only (the one-sample window is all strong sad) and on no *)
(* later tick.                                                             *)
ScenarioBOnlyFirst ==
    nticks >= 1 =>
        /\ Len(emissions) = 1
        /\ emissions[1][3] = VibrationsOf("sad")
        /\ emissions[1][4] = "sad"
        /\ (sent # <<>> => nticks = 1)

\* a tick after the cooldown has run out, over both labels, without a signal
ScenarioBUnmutedSilent ==
    /\ JustTicked
    /\ nticks >= 2
    /\ clock >= mute_until
    /\ sent = <<>>

----------------------------------------------------------------------------
(* The server variant (src/server/main.py): the detection thread shares    *)
(* analysis_history with the Flask handler thread of /gemini under         *)
(* analysis_lock.  A tick of the detection thread is cut where another     *)
(* thread can run in between: at each acquisition of the lock and at each  *)
(* access to the deque made without it.                                    *)

\* detection ticks explored in the server variant
MaxServerTicks == 2

\* the clock value up to which the server variant is explored
MaxServerTime == 25

\* elapsed time between two reads of time.time() by the server's loop
ServerDts == {5, 20}

\* analyze_frame results fed to the server's loop
ServerSamples == { <<None, 0>>, <<"happy", 95>>, <<"neutral", 95>> }

\* the ?window= values of the requests: 0.5 s and the default 5 s
RequestWindows == {5, 50}

\* what generate_content gives: an exception, an empty text, or a word
GeminiAnswers == {"exception", "", "sad"}

InitServer ==
    /\ InitWith(DefaultDetectionInterval, DefaultStrongThreshold, DefaultCooldown,
                DefaultSustainWindow, DefaultSustainRatio)
    /\ ENABLE_AUTO_SIGNALING \in BOOLEAN
    /\ ENABLE_SIGNAL_ON_API \in BOOLEAN

serverlocals == <<ENABLE_AUTO_SIGNALING, ENABLE_SIGNAL_ON_API, fpc, cutoff, samples,
                  response, apiSent, window>>

\* cap.read() fails (src/server/main.py 330-336)
ServerReadFail(dt) ==
    /\ dpc = "loop"
    /\ clock + dt <= MaxServerTime
    /\ ReadFail(dt)

\* an iteration before the detection interval has elapsed (src/server/main.py 338-348, 418)
ServerIdle(dt) ==
    /\ dpc = "loop"
    /\ clock + dt <= MaxServerTime
    /\ Idle(dt)

\* the tick starts: the frame is read and analysed (src/server/main.py 330-356)
DetectBegin(dt, emotion, confidence) ==
    /\ dpc = "loop"
    /\ nticks < MaxServerTicks
    /\ clock + dt <= MaxServerTime
    /\ clock + dt - last_detection_time >= DETECTION_INTERVAL
    /\ clock' = clock + dt
    /\ last_detection_time' = clock + dt
    /\ pending' = <<emotion, confidence>>
    /\ dpc' = "record"
    /\ UNCHANGED <<scan, life, bio,
                   analysis_history, mute_until, config, sent, history, analysis_lock,
                   snapshot, serverlocals, accesses, observedMid, recorded>>

\* with analysis_lock: analysis_history.append(...) (src/server/main.py 359-360)
DetectAppend ==
    /\ dpc = "record"
    /\ analysis_lock = "free"
    /\ analysis_lock' = "detect"
    /\ analysis_history' =
          Append(analysis_history, <<last_detection_time, pending[1], pending[2]>>)
    /\ accesses' = accesses \cup {<<"detect", "append", TRUE>>}
    /\ recorded' = Append(recorded, <<last_detection_time, pending[1], pending[2]>>)
    /\ dpc' = "purge"
    /\ UNCHANGED <<scan, life, bio,
                   clock, last_detection_time, mute_until, config, sent, history, pending,
                   snapshot, serverlocals, observedMid>>

\* the purge, still inside the with block, and its exit (src/server/main.py 361-364)
DetectPurge ==
    /\ dpc = "purge"
    /\ analysis_history' =
          Purge(analysis_history, WindowStart(last_detection_time, SUSTAIN_WINDOW_SECONDS))
    /\ accesses' = accesses \cup {<<"detect", "evict", analysis_lock = "detect">>}
    /\ analysis_lock' = "free"
    /\ dpc' = "check"
    /\ UNCHANGED <<scan, life, bio,
                   clock, last_detection_time, mute_until, config, sent, history, pending,
                   snapshot, serverlocals, observedMid, recorded>>

\* if config.ENABLE_AUTO_SIGNALING and current_time >= mute_until and analysis_history:
\* the deque is tested before the lock is taken (src/server/main.py 376)
DetectCheck ==
    LET reached == ENABLE_AUTO_SIGNALING /\ NotMuted(last_detection_time, mute_until)
        passed  == reached /\ analysis_history # <<>>
    IN /\ dpc = "check"
       /\ accesses' = IF reached
                      THEN accesses \cup {<<"detect", "empty_test", analysis_lock = "detect">>}
                      ELSE accesses
       /\ IF passed
          THEN /\ dpc' = "snapshot"
               /\ UNCHANGED <<sent, nticks, pending>>
          ELSE /\ dpc' = "loop"
               /\ sent' = <<>>
               /\ nticks' = nticks + 1
               /\ pending' = <<>>
       /\ UNCHANGED <<scan, life, bio,
                      clock, last_detection_time, analysis_history, mute_until, config,
                      emissions, analysis_lock, snapshot, serverlocals, observedMid, recorded>>

\* with analysis_lock: snapshot = list(analysis_history) (src/server/main.py 377-378)
DetectSnapshot ==
    /\ dpc = "snapshot"
    /\ analysis_lock = "free"
    /\ snapshot' = analysis_history
    /\ accesses' = accesses \cup {<<"detect", "snapshot", TRUE>>}
    /\ dpc' = "decide"
    /\ UNCHANGED <<scan, life, bio,
                   clock, last_detection_time, analysis_history, mute_until, config, sent,
                   history, analysis_lock, pending, serverlocals, observedMid, recorded>>

\* the decision over the snapshot (src/server/main.py 379-401)
DetectDecide ==
    LET calls == Decide(last_detection_time, snapshot, mute_until,
                        STRONG_CONFIDENCE_THRESHOLD, SUSTAIN_RATIO)
    IN /\ dpc = "decide"
       /\ sent' = calls
       /\ mute_until' = IF calls # <<>>
                        THEN NextMuteUntil(last_detection_time, SIGNAL_COOLDOWN_SECONDS)
                        ELSE mute_until
       /\ nticks' = nticks + 1
       /\ emissions' = IF calls # <<>>
                       THEN Append(emissions, <<last_detection_time, SIGNAL_COOLDOWN_SECONDS,
                                                calls[1][1], calls[1][2]>>)
                       ELSE emissions
       /\ dpc' = "loop"
       /\ pending' = <<>>
       /\ snapshot' = <<>>
       /\ UNCHANGED <<scan, life, bio,
                      clock, last_detection_time, analysis_history, config, analysis_lock,
                      serverlocals, accesses, observedMid, recorded>>

\* a reader that iterates the deque without the lock
RecentUnlocked == FALSE

\* _recent_emotions iterates inside "with analysis_lock" (src/server/main.py 150)
RecentTakesLock == TRUE

\* a reader that returns every labelled sample of the deque, whatever the cutoff
RecentLabelled(h, c) ==
    LET Keep(x) == Truthy(x[2])
    IN SelectSeq(h, Keep)

\* the comprehension of _recent_emotions (src/server/main.py 151)
RecentOf(h, c) ==
    LET Keep(x) == x[1] >= c /\ Truthy(x[2])
    IN SelectSeq(h, Keep)

\* gemini_endpoint up to the cutoff of _recent_emotions (src/server/main.py 192-197, 149)
GeminiStart(w) ==
    /\ fpc = "idle"
    /\ window' = w
    /\ cutoff' = clock - w
    /\ fpc' = "read"
    /\ response' = <<>>
    /\ apiSent' = <<>>
    /\ UNCHANGED <<scan, life, bio,
                   clock, detector, config, sent, history, ENABLE_AUTO_SIGNALING,
                   ENABLE_SIGNAL_ON_API, analysis_lock, dpc, pending, snapshot,
                   samples, accesses, observedMid, recorded>>

\* with analysis_lock: return [... for ... in analysis_history if ...] (150-151)
GeminiRead ==
    /\ fpc = "read"
    /\ RecentTakesLock => analysis_lock = "free"
    /\ samples' = RecentOf(analysis_history, cutoff)
    /\ accesses' = accesses \cup {<<"flask", "iterate", RecentTakesLock>>}
    /\ observedMid' = (observedMid \/ dpc = "purge")
    /\ fpc' = "respond"
    /\ UNCHANGED <<scan, life, bio,
                   clock, detector, config, sent, history, ENABLE_AUTO_SIGNALING,
                   ENABLE_SIGNAL_ON_API, analysis_lock, dpc, pending, snapshot,
                   cutoff, response, apiSent, window, recorded>>

RECURSIVE CountAllFrom(_, _)
\* for _, emo, conf in samples: if emo: counts[emo] += 1 (src/server/main.py 156-159)
CountAllFrom(counts, h) ==
    IF h = <<>> THEN counts
    ELSE CountAllFrom(IF Truthy(h[1][2]) THEN CounterInc(counts, h[1][2]) ELSE counts,
                      Tail(h))

\* the rest of gemini_endpoint (src/server/main.py 198-248)
GeminiRespond(answer) ==
    /\ fpc = "respond"
    /\ IF samples = <<>>
       THEN /\ response' = <<404, "error">>
            /\ apiSent' = <<>>
       ELSE LET fallback_emotion == MostCommon1(CountAllFrom(<<>>, samples))[1]
                one_word == IF answer \in {"exception", ""} THEN fallback_emotion ELSE answer
                source   == IF answer = "exception" THEN "local_fallback" ELSE "gemini"
                vibrations == VibrationsOf(one_word)
            IN /\ response' = <<200, "ok", one_word, source>>
               /\ apiSent' = IF ENABLE_SIGNAL_ON_API /\ vibrations > 0
                             THEN << <<vibrations, one_word>> >>
                             ELSE <<>>
    /\ fpc' = "idle"
    /\ cutoff' = 0
    /\ window' = 0
    /\ samples' = <<>>
    /\ UNCHANGED <<scan, life, bio,
                   clock, detector, config, sent, history, ENABLE_AUTO_SIGNALING,
                   ENABLE_SIGNAL_ON_API, analysis_lock, dpc, pending, snapshot,
                   accesses, observedMid, recorded>>

NextServer ==
    \/ \E dt \in ServerDts : ServerReadFail(dt)
    \/ \E dt \in ServerDts : ServerIdle(dt)
    \/ \E dt \in ServerDts, s \in ServerSamples : DetectBegin(dt, s[1], s[2])
    \/ DetectAppend
    \/ DetectPurge
    \/ DetectCheck
    \/ DetectSnapshot
    \/ DetectDecide
    \/ \E w \in RequestWindows : GeminiStart(w)
    \/ GeminiRead
    \/ \E a \in GeminiAnswers : GeminiRespond(a)
    \/ \E v \in IntervalValues : OnIntervalChange(v)
    \/ \E v \in ThresholdValues : OnThresholdChange(v)

SpecServer == InitServer /\ [][NextServer]_vars

(* C10, as stated. Lock discipline: every access to analysis_history       *)
(* (append, eviction, iteration or snapshot, emptiness test) by either     *)
(* thread is made with analysis_lock held, and a reader never observes the *)
(* window between the append and the end of the eviction.                  *)
LockDisciplineAll ==
    /\ \A a \in accesses : a[3]
    /\ ~ observedMid

(* C10, amended. Lock discipline: every append, eviction, iteration and    *)
(* snapshot of analysis_history is made with analysis_lock held, and a     *)
(* reader never observes the window between the append and the end of the  *)
(* eviction; the emptiness test of the detection thread, the only writer,  *)
(* is made without the lock.                                               *)
LockDisciplineButTest ==
    /\ \A a \in accesses : a[2] # "empty_test" => a[3]
    /\ \A a \in accesses : a[2] = "empty_test" => ~ a[3]
    /\ ~ observedMid
    /\ dpc = "purge" => analysis_lock = "detect"

\* the handler wants to read while the detection thread is between append and purge
ReaderHeldOff ==
    /\ fpc = "read"
    /\ dpc = "purge"
    /\ analysis_lock = "detect"
    /\ Len(analysis_history) >= 2

----------------------------------------------------------------------------
(* Configuration: src/config.py is a module of plain assignments that the  *)
(* user edits; run_detection_loop reads the values as it finds them.  The  *)
(* program is run here in terminal mode (no UI, no sliders) under the      *)
(* shipped values and under edited ones.                                   *)

\* <<DETECTION_INTERVAL, STRONG_CONFIDENCE_THRESHOLD, SIGNAL_COOLDOWN_SECONDS,
\*   SUSTAIN_WINDOW_SECONDS, SUSTAIN_RATIO>> as written in config.py
ConfigFiles ==
    { <<5, 80, 50, 15, 80>>,       \* the shipped values
      <<10, 80, 50, 15, 80>>,      \* a slower detection interval
      <<5, 80, 50, 15, 150>>,      \* SUSTAIN_RATIO = 1.5
      <<5, 80, 50, 15, 0>>,        \* SUSTAIN_RATIO = 0
      <<5, 80, 50, -5, 80>>,       \* SUSTAIN_WINDOW_SECONDS = -0.5
      <<10, 80, -10, 15, 80>> }    \* SIGNAL_COOLDOWN_SECONDS = -1.0

InitConfig ==
    /\ \E c \in ConfigFiles : InitWith(c[1], c[2], c[3], c[4], c[5])
    /\ NoServerFlags

NextTerminal ==
    \/ \E dt \in Dts : ReadFail(dt)
    \/ \E dt \in Dts : Idle(dt)
    \/ \E dt \in Dts, s \in InputSamples : Tick(dt, s[1], s[2])

SpecConfig == InitConfig /\ [][NextTerminal]_vars

\* sustain_ratio in (0,1], window_seconds >= 0, cooldown_seconds >= 0
ValidConfig ==
    /\ SUSTAIN_RATIO > 0
    /\ SUSTAIN_RATIO <= 100
    /\ SUSTAIN_WINDOW_SECONDS >= 0
    /\ SIGNAL_COOLDOWN_SECONDS >= 0

(* C9. Configuration validation: under a sustain ratio outside (0,1], a    *)
(* negative window or a negative cooldown the detector processes no        *)
(* sample: the configuration is rejected before the first tick.            *)
InvalidConfigRejected == ~ ValidConfig => nticks = 0

----------------------------------------------------------------------------
(* The server variant: what the /gemini handler does to the cooldown and   *)
(* what it reads of the window.                                            *)

\* a step in which the detection thread calls hardware_bridge.send_vibration
\* (src/server/main.py 393-395)
DetectSends == dpc = "decide" /\ dpc' = "loop" /\ sent' # <<>>

\* a step in which gemini_endpoint calls hardware_bridge.send_vibration
\* (src/server/main.py 227-233)
GeminiSends == fpc = "respond" /\ fpc' = "idle" /\ apiSent' # <<>>

(* C11. System-wide mute in the server variant: while the current time is  *)
(* before mute_until, no thread calls hardware_bridge.send_vibration,      *)
(* neither the detection thread nor the /gemini handler.                   *)
SystemWideMute == [][(DetectSends \/ GeminiSends) => ~ (clock < mute_until)]_vars

\* the request window gemini_endpoint uses when ?window= is absent (line 193)
DefaultRequestWindow == 50

\* s is h with some entries left out, the others in the order of h
IsSubsequence(s, h) ==
    \E f \in [1..Len(s) -> 1..Len(h)] :
        /\ \A i \in 1..Len(s) : h[f[i]] = s[i]
        /\ \A i, j \in 1..Len(s) : i < j => f[i] < f[j]

\* the step of _recent_emotions that computes the cutoff (src/server/main.py 149)
RecentCutoffStep == fpc = "idle" /\ fpc' = "read"

\* the step of _recent_emotions that reads the deque (src/server/main.py 150-151)
RecentReadStep == fpc = "read" /\ fpc' = "respond"

(* C12. _recent_emotions(window_seconds) leaves analysis_history           *)
(* unchanged and returns an order-preserving subsequence of the current    *)
(* window; every sample returned satisfies the eviction invariant          *)
(* (timestamp >= newest timestamp of the window - W) and has               *)
(* timestamp >= call time - window_seconds.                                *)
RecentEmotionsFrame ==
    [][/\ RecentCutoffStep => cutoff' = clock - window'
       /\ RecentReadStep =>
             /\ analysis_history' = analysis_history
             /\ IsSubsequence(samples', analysis_history)
             /\ \A i \in 1..Len(samples') :
                   /\ samples'[i][1] >= Last(analysis_history)[1] - SUSTAIN_WINDOW_SECONDS
                   /\ samples'[i][1] >= cutoff]_vars

\* the handler holds a result from which the cutoff has removed a labelled sample
\* that is still in the window
RecentDroppedOld ==
    /\ fpc = "respond"
    /\ samples # <<>>
    /\ \E i \in 1..Len(analysis_history) :
          /\ Truthy(analysis_history[i][2])
          /\ analysis_history[i][1] < cutoff

(* C13. With the default window of 5 seconds, the samples /gemini reads    *)
(* include every labelled sample the detection loop recorded during the    *)
(* 5 seconds before the request.                                           *)
GeminiReadsLastFive ==
    [][RecentReadStep /\ window = DefaultRequestWindow =>
          \A i \in 1..Len(recorded) :
              ( /\ Truthy(recorded[i][2])
                /\ recorded[i][1] >= cutoff
                /\ recorded[i][1] <= cutoff + window )
              => \E j \in 1..Len(samples') : samples'[j] = recorded[i]]_vars

----------------------------------------------------------------------------
(* The loop of src/main.py: bookkeeping, cooldown update and calls of the  *)
(* sink, tick by tick.                                                     *)

\* the window a tick at time t must leave behind, whatever the mute state: the old
\* entries and the new one, without those older than t - W, in their order
WindowAfter(h, t, e, conf, W) ==
    LET Keep(x) == x[1] >= t - W
    IN SelectSeq(Append(h, <<t, e, conf>>), Keep)

(* C14. Window bookkeeping while muted: on a tick with timestamp before    *)
(* mute_until the sample is appended and the expired samples are evicted   *)
(* exactly as on an unmuted tick; only the emission decision is skipped.   *)
MutedBookkeeping ==
    [][TickStep =>
         /\ analysis_history' # <<>>
         /\ Last(analysis_history')[1] = clock'
         /\ analysis_history' = WindowAfter(analysis_history, clock',
                                            Last(analysis_history')[2],
                                            Last(analysis_history')[3],
                                            SUSTAIN_WINDOW_SECONDS)
         /\ clock' < mute_until =>
               (sent' = <<>> /\ emissions' = emissions /\ mute_until' = mute_until)]_vars

\* a muted tick has appended its sample and evicted the sample that fired the signal
MutedTickEvicted ==
    /\ JustTicked
    /\ clock < mute_until
    /\ sent = <<>>
    /\ Len(emissions) = 1
    /\ Len(analysis_history) = 1
    /\ analysis_history[1][1] = clock
    /\ emissions[1][1] < clock - SUSTAIN_WINDOW_SECONDS

(* C15. Cooldown update: a tick that emits sets mute_until to exactly its  *)
(* timestamp + C; a tick that does not emit (muted, no strong sample,      *)
(* ratio below R, intensity 0) leaves mute_until unchanged.                *)
CooldownUpdate ==
    [][TickStep =>
         mute_until' = IF sent' # <<>>
                       THEN clock' + SIGNAL_COOLDOWN_SECONDS
                       ELSE mute_until]_vars

\* an unmuted tick after a signal has emitted nothing and kept the old mute_until
CooldownKeptOnSilentTick ==
    /\ JustTicked
    /\ sent = <<>>
    /\ emissions # <<>>
    /\ clock >= mute_until
    /\ mute_until = Last(emissions)[1] + Last(emissions)[2]

(* C17. A window in which no sample is both labelled and of confidence     *)
(* >= T produces no signal and no failure: unlabelled and weak samples     *)
(* count in the total and in no strong count.                              *)
NoStrongNoSignal ==
    [][(TickStep /\ StrongLabels(analysis_history', STRONG_CONFIDENCE_THRESHOLD) = {}) =>
         /\ CountStrong(analysis_history', STRONG_CONFIDENCE_THRESHOLD) = <<>>
         /\ Total(analysis_history') >= 1
         /\ sent' = <<>>
         /\ emissions' = emissions
         /\ mute_until' = mute_until]_vars

\* an unmuted tick over the single weak sample (angry, 0.5) under T = 0.8, silent
WeakOnlyWindow ==
    /\ JustTicked
    /\ clock >= mute_until
    /\ STRONG_CONFIDENCE_THRESHOLD = 80
    /\ Len(analysis_history) = 1
    /\ analysis_history[1][2] = "angry"
    /\ analysis_history[1][3] = 50
    /\ sent = <<>>

(* C19. Each detection tick emits at most one signal;                      *)
(* hardware_bridge.send_vibration is called exactly once for each signal   *)
(* emitted and never on a tick that emits none, nor between ticks.         *)
OneCallPerSignal ==
    [][/\ TickStep =>
            /\ Len(sent') <= 1
            /\ Len(sent') = Len(PolicySignal(clock', analysis_history', mute_until,
                                             STRONG_CONFIDENCE_THRESHOLD, SUSTAIN_RATIO))
            /\ Len(emissions') = Len(emissions) + Len(sent')
       /\ ~ TickStep => (sent' = sent /\ emissions' = emissions)]_vars

\* two ticks, each over a qualifying window, have made one call each
OneCallEachTick ==
    /\ JustTicked
    /\ nticks = 2
    /\ Len(emissions) = 2
    /\ Len(sent) = 1
    /\ Len(analysis_history) = 2

----------------------------------------------------------------------------
(* Labels outside the mapping: analyze_frame hands on whatever label the   *)
(* classifier gives, and the loop looks it up with a default.              *)

\* analyze_frame results that include a label EMOTION_TO_VIBRATION does not list
LabelSamples == { <<None, 0>>, <<"happy", 95>>, <<"contempt", 95>> }

NextLabels ==
    \/ \E dt \in Dts : ReadFail(dt)
    \/ \E dt \in Dts, s \in LabelSamples : Tick(dt, s[1], s[2])

SpecLabels == Init /\ [][NextLabels]_vars

(* C18. A dominant label absent from the emotion-to-intensity mapping is   *)
(* treated as intensity 0: the tick emits no signal, starts no cooldown    *)
(* and fails in no way.                                                    *)
UnmappedLabelSilent ==
    [][(/\ TickStep
        /\ StrongLabels(analysis_history', STRONG_CONFIDENCE_THRESHOLD) # {}
        /\ Dominant(analysis_history', STRONG_CONFIDENCE_THRESHOLD)
              \notin DOMAIN EMOTION_TO_VIBRATION)
       => (sent' = <<>> /\ emissions' = emissions /\ mute_until' = mute_until)]_vars

\* an unmuted tick over a window of strong samples of the unlisted label, silent
UnmappedWindowSilent ==
    /\ JustTicked
    /\ clock >= mute_until
    /\ Len(analysis_history) >= 2
    /\ \A i \in 1..Len(analysis_history) :
          /\ analysis_history[i][2] = "contempt"
          /\ analysis_history[i][3] >= STRONG_CONFIDENCE_THRESHOLD
    /\ sent = <<>>
    /\ mute_until = 0

----------------------------------------------------------------------------
(* The counting loop of a tick, sample by sample (src/main.py 184-201).    *)
(* With the UI, run_detection_loop runs in its own thread and the sliders  *)
(* assign the attributes of config from the Tk thread, so a slider handler *)
(* can run between two iterations of the for loop.                         *)

\* analyze_frame results fed to the loop when it is followed sample by sample
ScanSamples == { <<None, 0>>, <<"happy", 95>>, <<"sad", 90>> }

\* cap.read() fails (src/main.py 139-145)
ScanReadFail(dt) ==
    /\ cpc = "loop"
    /\ ReadFail(dt)

\* the tick up to the mute test: append, purge, and the test of line 184
\* (src/main.py 147-186)
ScanBegin(dt, emotion, confidence) ==
    LET current_time == clock + dt
        appended     == Append(analysis_history, <<current_time, emotion, confidence>>)
        purged       == Purge(appended, WindowStart(current_time, SUSTAIN_WINDOW_SECONDS))
    IN /\ cpc = "loop"
       /\ nticks < MaxTicks
       /\ current_time <= MaxTime
       /\ current_time - last_detection_time >= DETECTION_INTERVAL
       /\ clock' = current_time
       /\ last_detection_time' = current_time
       /\ analysis_history' = purged
       /\ thresholdsRead' = {}
       /\ tickCounts' = <<>>
       /\ IF NotMuted(current_time, mute_until) /\ purged # <<>>
          THEN /\ cpc' = "count"
               /\ ci' = 1
               /\ UNCHANGED <<sent, nticks>>
          ELSE /\ cpc' = "loop"
               /\ ci' = 0
               /\ sent' = <<>>
               /\ nticks' = nticks + 1
       /\ UNCHANGED <<mute_until, emissions, config, ENABLE_AUTO_SIGNALING,
                      ENABLE_SIGNAL_ON_API, analysis_lock, dpc, pending, snapshot, fpc,
                      cutoff, samples, response, apiSent, accesses, observedMid, window,
                      recorded, life, bio>>

\* one iteration of the for loop: if e and conf >= config.STRONG_CONFIDENCE_THRESHOLD:
\* counts[e] += 1; the attribute is looked up only when e is truthy (src/main.py 187-190)
ScanSample ==
    /\ cpc = "count"
    /\ ci <= Len(analysis_history)
    /\ LET e    == analysis_history[ci][2]
           conf == analysis_history[ci][3]
       IN IF Truthy(e)
          THEN /\ thresholdsRead' = thresholdsRead \cup {STRONG_CONFIDENCE_THRESHOLD}
               /\ tickCounts' = IF conf >= STRONG_CONFIDENCE_THRESHOLD
                                THEN CounterInc(tickCounts, e)
                                ELSE tickCounts
          ELSE UNCHANGED <<thresholdsRead, tickCounts>>
    /\ ci' = ci + 1
    /\ UNCHANGED <<clock, detector, config, sent, history, cpc, ENABLE_AUTO_SIGNALING,
                   ENABLE_SIGNAL_ON_API, analysis_lock, dpc, pending, snapshot, fpc,
                   cutoff, samples, response, apiSent, accesses, observedMid, window,
                   recorded, life, bio>>

\* after the for loop: if counts: ... send_vibration, mute_until (src/main.py 192-201)
ScanDecide ==
    LET total == Total(analysis_history)
        calls == IF tickCounts # <<>>
                 THEN LET dominant_emotion == MostCommon1(tickCounts)[1]
                          strong_count     == MostCommon1(tickCounts)[2]
                          vibrations       == VibrationsOf(dominant_emotion)
                      IN IF RatioReached(strong_count, total, SUSTAIN_RATIO)
                            /\ MappedToSignal(vibrations)
                         THEN << <<vibrations, dominant_emotion>> >>
                         ELSE <<>>
                 ELSE <<>>
    IN /\ cpc = "count"
       /\ ci > Len(analysis_history)
       /\ sent' = calls
       /\ mute_until' = IF calls # <<>>
                        THEN NextMuteUntil(last_detection_time, SIGNAL_COOLDOWN_SECONDS)
                        ELSE mute_until
       /\ nticks' = nticks + 1
       /\ emissions' = IF calls # <<>>
                       THEN Append(emissions, <<last_detection_time, SIGNAL_COOLDOWN_SECONDS,
                                                calls[1][1], calls[1][2]>>)
                       ELSE emissions
       /\ cpc' = "loop"
       /\ ci' = 0
       /\ tickCounts' = <<>>
       /\ UNCHANGED <<clock, last_detection_time, analysis_history, config, thresholdsRead,
                      ENABLE_AUTO_SIGNALING, ENABLE_SIGNAL_ON_API, analysis_lock, dpc,
                      pending, snapshot, fpc, cutoff, samples, response, apiSent, accesses,
                      observedMid, window, recorded, life, bio>>

NextScan ==
    \/ \E dt \in Dts : ScanReadFail(dt)
    \/ \E dt \in Dts, s \in ScanSamples : ScanBegin(dt, s[1], s[2])
    \/ ScanSample
    \/ ScanDecide
    \/ \E v \in ThresholdValues : OnThresholdChange(v)

SpecScan == Init /\ [][NextScan]_vars

(* C20. The strong-confidence threshold is not read by the loop while      *)
(* another thread may write it: within one detection tick every sample of  *)
(* the window is classified against one and the same threshold value, even *)
(* if the UI thread moves the threshold slider during that tick.           *)
OneThresholdPerTick == Cardinality(thresholdsRead) <= 1

----------------------------------------------------------------------------
(* Terminal mode under the shipped window, ratio, threshold and cooldown:  *)
(* no UI thread, so the configuration stays as imported.  The detection    *)
(* interval is the shipped one or a slower one.                            *)

\* detection ticks explored in terminal mode
MaxFixedTicks == 3

\* analyze_frame results fed to the loop in terminal mode
FixedSamples == { <<None, 0>>, <<"happy", 95>>, <<"neutral", 95>> }

InitFixed ==
    /\ \E d \in IntervalValues :
          InitWith(d, DefaultStrongThreshold, DefaultCooldown,
                   DefaultSustainWindow, DefaultSustainRatio)
    /\ NoServerFlags

FixedTick(dt, emotion, confidence) ==
    /\ nticks < MaxFixedTicks
    /\ TickBody(dt, emotion, confidence)

NextFixed ==
    \/ \E dt \in Dts : ReadFail(dt)
    \/ \E dt \in Dts : Idle(dt)
    \/ \E dt \in Dts, s \in FixedSamples : FixedTick(dt, s[1], s[2])

SpecFixed == InitFixed /\ [][NextFixed]_vars

(* C21. Eviction removes only expired samples: the purge of the tick at    *)
(* time now removes the samples with timestamp < now - W and no others; a  *)
(* sample stamped exactly now - W is retained.                             *)
EvictOnlyExpired ==
    [][TickStep =>
         \A i \in 1..Len(analysis_history) :
             (analysis_history[i][1] >= clock' - SUSTAIN_WINDOW_SECONDS)
             <=> (\E j \in 1..Len(analysis_history') :
                     analysis_history'[j] = analysis_history[i])]_vars

\* a tick has retained a sample stamped exactly now - W
BoundarySampleKept ==
    /\ JustTicked
    /\ Len(analysis_history) >= 2
    /\ analysis_history[1][1] = clock - SUSTAIN_WINDOW_SECONDS

(* C22. Mute boundary: a tick whose timestamp equals mute_until exactly   *)
(* is not muted and emits when its window qualifies; only ticks with       *)
(* timestamp strictly less than mute_until are suppressed.                 *)
MuteBoundary ==
    [][TickStep =>
         /\ (/\ clock' = mute_until
             /\ WindowQualifies(analysis_history', STRONG_CONFIDENCE_THRESHOLD,
                                SUSTAIN_RATIO))
            => (sent' # <<>> /\ mute_until' = clock' + SIGNAL_COOLDOWN_SECONDS)
         /\ sent' # <<>> => ~ (clock' < mute_until)]_vars

\* a second signal emitted at exactly t0 + C of the first
EmittedAtMuteUntil ==
    /\ JustTicked
    /\ Len(emissions) = 2
    /\ emissions[2][1] = emissions[1][1] + emissions[1][2]
    /\ sent # <<>>

----------------------------------------------------------------------------
(* Boundary values: confidences at and just below T = 0.8, fed every 0.3 s *)
(* under a detection interval of 0.1 s, so that five samples share a       *)
(* window of 1.5 s.                                                        *)

\* samples fed in the boundary scenario
MaxBoundaryTicks == 5

\* analyze_frame results at the threshold, just below it, and without a face
BoundarySamples == { <<None, 0>>, <<"happy", 80>>, <<"happy", 79>> }

FeedBoundary(emotion, confidence) ==
    /\ nticks < MaxBoundaryTicks
    /\ TickBody(3, emotion, confidence)

NextBoundary == \E s \in BoundarySamples : FeedBoundary(s[1], s[2])

SpecBoundary == InitA /\ [][NextBoundary]_vars

(* C23. Threshold boundaries are inclusive: a labelled sample with         *)
(* confidence exactly T counts as strong, and an unmuted tick whose        *)
(* dominant, positively mapped label has strong ratio exactly R (4 strong  *)
(* of 5 under R = 0.8) emits a signal.                                     *)
InclusiveBoundaries ==
    [][TickStep =>
         LET h  == analysis_history'
             T  == STRONG_CONFIDENCE_THRESHOLD
             cs == CountStrong(h, T)
         IN /\ \A i \in 1..Len(h) :
                  (Truthy(h[i][2]) /\ h[i][3] = T) =>
                     \E k \in 1..Len(cs) :
                        /\ cs[k][1] = h[i][2]
                        /\ cs[k][2] = Cardinality({j \in 1..Len(h) :
                                                     h[j][2] = h[i][2] /\ h[j][3] >= T})
            /\ (/\ clock' >= mute_until
                /\ StrongLabels(h, T) # {}
                /\ Cardinality(StrongIdx(h, T, Dominant(h, T))) * 100
                      = SUSTAIN_RATIO * Len(h)
                /\ VibrationsOf(Dominant(h, T)) > 0)
               => sent' = << <<VibrationsOf(Dominant(h, T)), Dominant(h, T)>> >>]_vars

\* a signal emitted over five samples of which four have confidence exactly T
FourOfFiveAtThreshold ==
    /\ JustTicked
    /\ Len(analysis_history) = 5
    /\ Cardinality({i \in 1..5 : analysis_history[i][2] = "happy"
                                 /\ analysis_history[i][3] = STRONG_CONFIDENCE_THRESHOLD}) = 4
    /\ Cardinality({i \in 1..5 : analysis_history[i][3] >= STRONG_CONFIDENCE_THRESHOLD}) = 4
    /\ SUSTAIN_RATIO = 80
    /\ sent = << <<1, "happy">> >>

----------------------------------------------------------------------------
(* Terminal mode: order of the window, failed reads, cadence.              *)

(* C24. Window order: analysis_history is always ordered oldest first with *)
(* non-decreasing timestamps; a tick adds its sample at the back and       *)
(* removes samples from the front only, so the retained samples keep their *)
(* relative order; no other step touches the window.                       *)
WindowOrder ==
    [][/\ \A i \in 1..(Len(analysis_history') - 1) :
             analysis_history'[i][1] <= analysis_history'[i + 1][1]
       /\ TickStep =>
             /\ analysis_history' # <<>>
             /\ Last(analysis_history')[1] = clock'
             /\ \E k \in 0..Len(analysis_history) :
                   analysis_history' =
                       SubSeq(Append(analysis_history, Last(analysis_history')),
                              k + 1, Len(analysis_history) + 1)
       /\ ~ TickStep => analysis_history' = analysis_history]_vars

\* after three ticks the window holds two samples, oldest first: the first sample
\* has left from the front and the newest sits at the back
FrontEvictedRestKept ==
    /\ JustTicked
    /\ nticks = 3
    /\ Len(analysis_history) = 2
    /\ analysis_history[1][1] < analysis_history[2][1]

(* C25. No warm-up: from an empty window and mute_until = 0, a single     *)
(* sample with a positively mapped label and confidence >= T emits a       *)
(* signal on that first tick; the ratio is taken over the one-sample       *)
(* window.                                                                 *)
NoWarmUp ==
    [][(/\ TickStep
        /\ analysis_history = <<>>
        /\ mute_until = 0
        /\ Truthy(Last(analysis_history')[2])
        /\ Last(analysis_history')[3] >= STRONG_CONFIDENCE_THRESHOLD
        /\ VibrationsOf(Last(analysis_history')[2]) > 0)
       => /\ Len(analysis_history') = 1
          /\ sent' = << <<VibrationsOf(Last(analysis_history')[2]),
                          Last(analysis_history')[2]>> >>
          /\ mute_until' = clock' + SIGNAL_COOLDOWN_SECONDS]_vars

\* the very first tick has emitted over its own sample alone
FirstTickEmitted ==
    /\ JustTicked
    /\ nticks = 1
    /\ Len(analysis_history) = 1
    /\ Len(emissions) = 1
    /\ emissions[1][1] = analysis_history[1][1]
    /\ sent # <<>>

----------------------------------------------------------------------------
(* Start and shutdown with the UI (src/main.py main, src/ui.py).  The      *)
(* detection thread is a daemon thread; the main thread runs the Tk main   *)
(* loop, and after the window is closed it sets stop_event, waits for the  *)
(* detection thread for JoinTimeout and leaves.  An iteration of the loop  *)
(* is in progress while iterStart = clock; its effects take place when it  *)
(* completes, together with the time it took.                              *)

\* detection_thread.join(timeout=2.0) (src/main.py 308), in tenths of a second
JoinTimeout == 20

\* analyze_frame results fed to the loop while the shutdown is followed
ShutdownSamples == { <<None, 0>>, <<"happy", 95>> }

\* a finally block that releases the camera twice
ReleaseTwice(n) == n + 2

\* cap.release() (src/main.py 234)
ReleaseCap(n) == n + 1

\* while not (stop_event and stop_event.is_set()) (src/main.py 137)
LoopTest ==
    /\ mpc # "exited"
    /\ tpc = "loop"
    /\ iterStart # clock
    /\ IF stop_event
       THEN tpc' = "finally" /\ UNCHANGED iterStart
       ELSE iterStart' = clock /\ UNCHANGED tpc
    /\ UNCHANGED <<clock, detector, config, sent, history, ENABLE_AUTO_SIGNALING,
                   ENABLE_SIGNAL_ON_API, analysis_lock, dpc, pending, snapshot, fpc,
                   cutoff, samples, response, apiSent, accesses, observedMid, window,
                   recorded, scan, bio, ui_running, stop_event, released, mpc, joinStart>>

\* the iteration in progress completes: failed read, early iteration, or tick
\* (src/main.py 138-224)
LoopBody ==
    /\ mpc # "exited"
    /\ tpc = "loop"
    /\ iterStart = clock
    /\ \/ \E dt \in Dts : ReadFail(dt)
       \/ \E dt \in Dts : Idle(dt)
       \/ \E dt \in Dts, s \in ShutdownSamples : Tick(dt, s[1], s[2])

\* the iteration in progress raises: except Exception, then finally (src/main.py 226-231)
LoopRaise ==
    /\ mpc # "exited"
    /\ tpc = "loop"
    /\ iterStart = clock
    /\ tpc' = "finally"
    /\ UNCHANGED <<clock, detector, config, sent, history, ENABLE_AUTO_SIGNALING,
                   ENABLE_SIGNAL_ON_API, analysis_lock, dpc, pending, snapshot, fpc,
                   cutoff, samples, response, apiSent, accesses, observedMid, window,
                   recorded, scan, bio, ui_running, stop_event, iterStart, released, mpc,
                   joinStart>>

\* finally: cap.release(), and the thread ends (src/main.py 231-236)
LoopFinally ==
    /\ mpc # "exited"
    /\ tpc = "finally"
    /\ released' = ReleaseCap(released)
    /\ tpc' = "done"
    /\ UNCHANGED <<clock, detector, config, sent, history, ENABLE_AUTO_SIGNALING,
                   ENABLE_SIGNAL_ON_API, analysis_lock, dpc, pending, snapshot, fpc,
                   cutoff, samples, response, apiSent, accesses, observedMid, window,
                   recorded, scan, bio, ui_running, stop_event, iterStart, mpc, joinStart>>

\* the user closes the window: on_closing sets running, calls the quit callback
\* (stop_event.set()), quits the main loop; ui.run() returns
\* (src/ui.py 318-324, src/main.py 275-277, 289).  The window is closed while the
\* exploration can still follow the iteration in progress to its end.
OnClosing ==
    /\ mpc = "mainloop"
    /\ \E dt \in Dts : clock + dt <= MaxTime
    /\ ui_running' = FALSE
    /\ stop_event' = TRUE
    /\ mpc' = "cleanup"
    /\ UNCHANGED <<clock, detector, config, sent, history, ENABLE_AUTO_SIGNALING,
                   ENABLE_SIGNAL_ON_API, analysis_lock, dpc, pending, snapshot, fpc,
                   cutoff, samples, response, apiSent, accesses, observedMid, window,
                   recorded, scan, bio, tpc, iterStart, released, joinStart>>

\* if stop_event: stop_event.set(); detection_thread.join(timeout=2.0) begins
\* (src/main.py 304-308)
MainCleanup ==
    /\ mpc = "cleanup"
    /\ stop_event' = TRUE
    /\ joinStart' = clock
    /\ mpc' = "join"
    /\ UNCHANGED <<clock, detector, config, sent, history, ENABLE_AUTO_SIGNALING,
                   ENABLE_SIGNAL_ON_API, analysis_lock, dpc, pending, snapshot, fpc,
                   cutoff, samples, response, apiSent, accesses, observedMid, window,
                   recorded, scan, bio, ui_running, tpc, iterStart, released>>

\* join returns, because the thread has ended or because the timeout has passed; main
\* returns and the interpreter exits, which ends a daemon thread wherever it is
\* (src/main.py 281-285, 308-312)
JoinReturn ==
    /\ mpc = "join"
    /\ tpc = "done" \/ clock >= joinStart + JoinTimeout
    /\ mpc' = "exited"
    /\ tpc' = IF tpc = "done" THEN "done" ELSE "killed"
    /\ UNCHANGED <<clock, detector, config, sent, history, ENABLE_AUTO_SIGNALING,
                   ENABLE_SIGNAL_ON_API, analysis_lock, dpc, pending, snapshot, fpc,
                   cutoff, samples, response, apiSent, accesses, observedMid, window,
                   recorded, scan, bio, ui_running, stop_event, iterStart, released,
                   joinStart>>

NextShutdown ==
    \/ LoopTest
    \/ LoopBody
    \/ LoopRaise
    \/ LoopFinally
    \/ OnClosing
    \/ MainCleanup
    \/ JoinReturn

SpecShutdown == InitFixed /\ [][NextShutdown]_vars

\* both threads keep running while they can; nothing makes the user close the
\* window or an iteration raise
SpecShutdownFair ==
    /\ SpecShutdown
    /\ WF_vars(LoopTest \/ LoopBody \/ LoopFinally)
    /\ WF_vars(MainCleanup \/ JoinReturn)

(* C26, as stated. Shutdown protocol: after the UI window is closed and    *)
(* on_closing has set stop_event through the quit callback, the detection  *)
(* thread eventually leaves its loop and the camera is released exactly    *)
(* once, also when the loop ends through an exception.                     *)
ShutdownReleasesOnce ==
    /\ [](released <= 1)
    /\ (~ ui_running) ~> (tpc = "done" /\ released = 1)

(* C26, amended. Shutdown protocol: after the UI window is closed,         *)
(* stop_event is set; the camera is released at most once, exactly once    *)
(* whenever the detection thread ends by itself (by the stop test or by an *)
(* exception); the thread ends by itself unless the iteration in progress  *)
(* outlasts the join timeout of the main thread, in which case the process *)
(* exits and takes the daemon thread with it before any release.           *)
ShutdownReleasesUnlessKilled ==
    /\ [](released <= 1)
    /\ [](~ ui_running => stop_event)
    /\ [](tpc = "done" => released = 1)
    /\ [](tpc = "killed" => (released = 0 /\ clock >= joinStart + JoinTimeout))
    /\ (~ ui_running) ~> (tpc = "done" \/ tpc = "killed")

\* the window was closed during an iteration; the thread has ended by the stop test
\* and released the camera before the main thread left
ShutdownReleased ==
    /\ mpc = "exited"
    /\ tpc = "done"
    /\ released = 1
    /\ nticks >= 1
    /\ iterStart < clock

(* C27. A failed camera read leaves the detector untouched: the iteration *)
(* appends no sample, evicts nothing, leaves mute_until and                *)
(* last_detection_time unchanged and sends no signal.                      *)
FailedReadFrame ==
    [][(~ TickStep /\ clock' # clock) =>
         /\ analysis_history' = analysis_history
         /\ mute_until' = mute_until
         /\ last_detection_time' = last_detection_time
         /\ sent' = sent
         /\ emissions' = emissions]_vars

\* the interval had elapsed and the cooldown was running, yet the iteration made no
\* tick: the read had failed, and the window, now partly expired, is as it was
FailedReadLeftWindow ==
    /\ nticks >= 1
    /\ clock - last_detection_time >= DETECTION_INTERVAL
    /\ clock < mute_until
    /\ analysis_history # <<>>
    /\ analysis_history[1][1] < clock - SUSTAIN_WINDOW_SECONDS
    /\ Last(analysis_history)[1] = last_detection_time

(* C28. Sampling cadence and window bound: with DETECTION_INTERVAL fixed  *)
(* at d > 0, two consecutive recorded samples are at least d apart in      *)
(* timestamp, so the window never holds more than floor(W / d) + 1         *)
(* samples.                                                                *)
CadenceAndBound ==
    /\ \A i \in 1..(Len(analysis_history) - 1) :
          analysis_history[i + 1][1] - analysis_history[i][1] >= DETECTION_INTERVAL
    /\ Len(analysis_history) <= (SUSTAIN_WINDOW_SECONDS \div DETECTION_INTERVAL) + 1

\* the window is as full as the bound allows, after an eviction
WindowAtBound ==
    /\ JustTicked
    /\ nticks = 3
    /\ Len(analysis_history) = (SUSTAIN_WINDOW_SECONDS \div DETECTION_INTERVAL) + 1

----------------------------------------------------------------------------
(* Biometrics in the server variant (src/server/main.py): Flask serves     *)
(* each request in a thread of its own, so POST /biometrics handlers and   *)
(* the prompt builder of /gemini run side by side.  Each handler is cut at *)
(* every access to latest_biometrics.  The values of one POST are          *)
(* represented by the number of that POST, the initial None by 0.          *)

\* POST /biometrics updates explored
MaxPosts == 3

\* the threads that serve POST /biometrics
Writers == {1, 2}

\* a prompt builder that reads the three fields without the lock
BioReadUnlocked == FALSE

\* _build_gemini_prompt reads inside "with biometrics_lock" (src/server/main.py 162)
BioReadTakesLock == TRUE

\* the variables of the other parts of the program
nonbio == <<clock, detector, config, sent, history, ENABLE_AUTO_SIGNALING,
            ENABLE_SIGNAL_ON_API, analysis_lock, dpc, pending, snapshot, fpc, cutoff,
            samples, response, apiSent, accesses, observedMid, window, recorded, scan,
            life>>

\* receive_biometrics: a valid body, with biometrics_lock: and the first assignment
\* (src/server/main.py 263-277)
BioWritePulse(w) ==
    /\ wpc[w] = "idle"
    /\ nposts < MaxPosts
    /\ biometrics_lock = "free"
    /\ biometrics_lock' = "writer"
    /\ nposts' = nposts + 1
    /\ wid' = [wid EXCEPT ![w] = nposts + 1]
    /\ latest_biometrics' = [latest_biometrics EXCEPT ![1] = nposts + 1]
    /\ wpc' = [wpc EXCEPT ![w] = "breath"]
    /\ UNCHANGED <<nonbio, rpc, readTriple>>

\* latest_biometrics["breathing_average"] = ... (src/server/main.py 278)
BioWriteBreath(w) ==
    /\ wpc[w] = "breath"
    /\ latest_biometrics' = [latest_biometrics EXCEPT ![2] = wid[w]]
    /\ wpc' = [wpc EXCEPT ![w] = "stamp"]
    /\ UNCHANGED <<nonbio, biometrics_lock, wid, rpc, readTriple, nposts>>

\* latest_biometrics["timestamp"] = ... and the end of the with block
\* (src/server/main.py 279)
BioWriteStamp(w) ==
    /\ wpc[w] = "stamp"
    /\ latest_biometrics' = [latest_biometrics EXCEPT ![3] = wid[w]]
    /\ biometrics_lock' = "free"
    /\ wpc' = [wpc EXCEPT ![w] = "idle"]
    /\ UNCHANGED <<nonbio, wid, rpc, readTriple, nposts>>

\* _build_gemini_prompt: with biometrics_lock: pulse = ... (src/server/main.py 162-163)
BioReadPulse ==
    /\ rpc = "idle"
    /\ BioReadTakesLock => biometrics_lock = "free"
    /\ biometrics_lock' = IF BioReadTakesLock THEN "reader" ELSE biometrics_lock
    /\ readTriple' = <<latest_biometrics[1]>>
    /\ rpc' = "breath"
    /\ UNCHANGED <<nonbio, latest_biometrics, wpc, wid, nposts>>

\* breath = latest_biometrics["breathing_average"] (src/server/main.py 164)
BioReadBreath ==
    /\ rpc = "breath"
    /\ readTriple' = Append(readTriple, latest_biometrics[2])
    /\ rpc' = "stamp"
    /\ UNCHANGED <<nonbio, latest_biometrics, biometrics_lock, wpc, wid, nposts>>

\* b_ts = latest_biometrics["timestamp"] and the end of the with block
\* (src/server/main.py 165)
BioReadStamp ==
    /\ rpc = "stamp"
    /\ readTriple' = Append(readTriple, latest_biometrics[3])
    /\ biometrics_lock' = IF biometrics_lock = "reader" THEN "free" ELSE biometrics_lock
    /\ rpc' = "idle"
    /\ UNCHANGED <<nonbio, latest_biometrics, wpc, wid, nposts>>

NextBio ==
    \/ \E w \in Writers : BioWritePulse(w)
    \/ \E w \in Writers : BioWriteBreath(w)
    \/ \E w \in Writers : BioWriteStamp(w)
    \/ BioReadPulse
    \/ BioReadBreath
    \/ BioReadStamp

SpecBio == InitServer /\ [][NextBio]_vars

----------------------------------------------------------------------------
(* The answer of /gemini (src/server/main.py 186-248).                     *)

\* number of samples of s that carry the label e
LabelCount(s, e) == Cardinality({i \in 1..Len(s) : s[i][2] = e})

\* the step in which gemini_endpoint answers
GeminiAnswerStep == fpc = "respond" /\ fpc' = "idle"

====
